---- MODULE Spec2Model ----
(***************************************************************************)
(* Adaptor trimming of short reads (align/adaptor_trim.py).                *)
(*                                                                         *)
(* Strings are sequences of one-character strings.  Python offsets are     *)
(* 0-based and are kept 0-based here: Slice(s, a, b) is s[a:b].            *)
(***************************************************************************)
EXTENDS Integers, Sequences, FiniteSets, TLC

\* ------------------------------------------------------------ bounds
MaxSeqLen == 5
MaxAdaptorLen == 4
MaxErrors == 2
MaxRecs == 2
MaxRecLen == 2

\* The symbols reads and adaptors are drawn from.
Bases == {"A", "C"}

\* ------------------------------------------------------------ strings
RECURSIVE StrsUpTo(_)
StrsUpTo(n) ==
    IF n = 0 THEN {<<>>}
    ELSE LET shorter == StrsUpTo(n - 1)
         IN  shorter \cup {Append(s, b) : s \in {t \in shorter : Len(t) = n - 1}, b \in Bases}

Min(a, b) == IF a < b THEN a ELSE b
Max(a, b) == IF a > b THEN a ELSE b

\* Python's s[a:b]: negative offsets count from the end, offsets are clamped.
SliceIdx(n, i) == IF i < 0 THEN Max(n + i, 0) ELSE Min(i, n)
Slice(s, a, b) == SubSeq(s, SliceIdx(Len(s), a) + 1, SliceIdx(Len(s), b))

\* Whether sub occurs in s at 0-based offset p.
OccursAt(s, sub, p) ==
    /\ p >= 0
    /\ p + Len(sub) <= Len(s)
    /\ \A i \in 1..Len(sub) : s[p + i] = sub[i]

\* Offsets at which sub occurs in s.
Occurrences(s, sub) == {p \in 0..Len(s) : OccursAt(s, sub, p)}

\* A search that reports the rightmost occurrence.
FindLast(s, sub) ==
    IF Occurrences(s, sub) = {} THEN -1
    ELSE CHOOSE p \in Occurrences(s, sub) : \A q \in Occurrences(s, sub) : q <= p

\* A search that reports the leftmost occurrence.
FindFirst(s, sub) ==
    IF Occurrences(s, sub) = {} THEN -1
    ELSE CHOOSE p \in Occurrences(s, sub) : \A q \in Occurrences(s, sub) : p <= q

\* str.find: scan from the left, -1 when absent.
RECURSIVE FindFrom(_, _, _)
FindFrom(s, sub, p) ==
    IF p + Len(sub) > Len(s) THEN -1
    ELSE IF OccursAt(s, sub, p) THEN p
    ELSE FindFrom(s, sub, p + 1)
Find(s, sub) == FindFrom(s, sub, 0)

\* str.rfind: scan from the right, -1 when absent.
RECURSIVE RFindFrom(_, _, _)
RFindFrom(s, sub, p) ==
    IF p < 0 THEN -1
    ELSE IF OccursAt(s, sub, p) THEN p
    ELSE RFindFrom(s, sub, p - 1)
RFind(s, sub) == RFindFrom(s, sub, Len(s) - Len(sub))

gap_char == "-"

\* A region handed on with its gap markers.
KeepGaps(s) == s

\* str.replace(gap_char, ""): drop every gap marker.
RECURSIVE StripGaps(_)
StripGaps(s) ==
    IF s = <<>> THEN <<>>
    ELSE IF Head(s) = gap_char THEN StripGaps(Tail(s))
    ELSE <<Head(s)>> \o StripGaps(Tail(s))

Gaps(k) == [i \in 1..k |-> gap_char]

\* ------------------------------------------------------------ aligner
\* pairwise2.align.localms(seq, adaptor, 5.0, -4.0, -9.0, -0.5, ...): the scores,
\* doubled so that the gap-extension penalty of -0.5 is an integer.
MatchScore == 10
MismatchScore == -8
GapOpen == -18
GapExtend == -1

\* Penalty of a run of k gap markers: one opening, k - 1 extensions.
GapPenalty(k) == GapOpen + (k - 1) * GapExtend

SetMax(S) == CHOOSE x \in S : \A y \in S : y <= x

\* The table is kept row by row: cell (i, j) is the set of best-scoring local
\* alignments whose last column pairs seq[i] with adaptor[j].
CellAt(tab, m, i, j) == tab[(i - 1) * m + j]

AlignCell(s, a, tab, i, j) ==
    LET m == Len(a)
        fresh == {[sc |-> 0, sr |-> <<>>, ar |-> <<>>]}
        diag == IF i > 1 /\ j > 1 THEN CellAt(tab, m, i - 1, j - 1) ELSE {}
        \* k symbols of the read opposite gap markers in the adaptor
        insA == IF j > 1
                THEN UNION {{[sc |-> c.sc + GapPenalty(k),
                              sr |-> c.sr \o SubSeq(s, i - k, i - 1),
                              ar |-> c.ar \o Gaps(k)] : c \in CellAt(tab, m, i - 1 - k, j - 1)}
                            : k \in 1..(i - 2)}
                ELSE {}
        \* k symbols of the adaptor opposite gap markers in the read
        insB == IF i > 1
                THEN UNION {{[sc |-> c.sc + GapPenalty(k),
                              sr |-> c.sr \o Gaps(k),
                              ar |-> c.ar \o SubSeq(a, j - k, j - 1)] : c \in CellAt(tab, m, i - 1, j - 1 - k)}
                            : k \in 1..(j - 2)}
                ELSE {}
        cands == fresh \cup diag \cup insA \cup insB
        best == SetMax({c.sc : c \in cands})
        here == IF s[i] = a[j] THEN MatchScore ELSE MismatchScore
    IN  {[sc |-> c.sc + here, sr |-> Append(c.sr, s[i]), ar |-> Append(c.ar, a[j])]
         : c \in {d \in cands : d.sc = best}}

RECURSIVE FillTable(_, _, _, _)
FillTable(s, a, k, tab) ==
    IF k > Len(s) * Len(a) THEN tab
    ELSE FillTable(s, a, k + 1,
                   Append(tab, AlignCell(s, a, tab, ((k - 1) \div Len(a)) + 1,
                                         ((k - 1) % Len(a)) + 1)))

\* The alignment as pairwise2 hands it back: both sequences whole, the
\* unaligned ends padded with gap markers to equal length, and the matched
\* columns at [start, end).
Padded(s, a, i, j, c) ==
    LET begA == i - Len(StripGaps(c.sr))
        begB == j - Len(StripGaps(c.ar))
        lead == Max(begA, begB)
        trail == Max(Len(s) - i, Len(a) - j)
    IN  << Gaps(lead - begA) \o SubSeq(s, 1, begA) \o c.sr
              \o SubSeq(s, i + 1, Len(s)) \o Gaps(trail - (Len(s) - i)),
           Gaps(lead - begB) \o SubSeq(a, 1, begB) \o c.ar
              \o SubSeq(a, j + 1, Len(a)) \o Gaps(trail - (Len(a) - j)),
           c.sc, lead, lead + Len(c.sr) >>

\* Every list localms may return with one_alignment_only: empty when nothing
\* aligns with a positive score, otherwise one of the best-scoring alignments.
LocalMS(s, a) ==
    IF s = <<>> \/ a = <<>> THEN {<<>>}
    ELSE LET tab == FillTable(s, a, 1, <<>>)
             m == Len(a)
             best == SetMax({c.sc : c \in UNION {tab[k] : k \in 1..Len(tab)}})
         IN  IF best <= 0 THEN {<<>>}
             ELSE {<<Padded(s, a, i, j, c)>> :
                     <<i, j, c>> \in {<<i, j, c>> \in
                         UNION {UNION {{<<i2, j2, c2>> : c2 \in CellAt(tab, m, i2, j2)}
                                       : j2 \in 1..m} : i2 \in 1..Len(s)}
                         : c.sc = best}}

\* ------------------------------------------------------------ trimmer
\* A removal that, on the right side, keeps the matched region.
RemoveAdaptorKeepRegion(s, region, side) ==
    IF side
    THEN LET pos == Find(s, region) IN Slice(s, 0, pos + Len(region))
    ELSE LET pos == RFind(s, region) IN Slice(s, pos + Len(region), Len(s))

\* _remove_adaptor: cut at the first occurrence and keep what is before it, or
\* cut at the last occurrence and keep what is after it.
RemoveAdaptor(s, region, side) ==
    IF side
    THEN LET pos == Find(s, region) IN Slice(s, 0, pos)
    ELSE LET pos == RFind(s, region) IN Slice(s, pos + Len(region), Len(s))

\* _remove_adaptor: the offset that find (right side) or rfind (left side)
\* reports for the region.
RemovePos(s, region, side) == IF side THEN Find(s, region) ELSE RFind(s, region)

\* The number of columns at which the two regions carry the same symbol.
Matches(sregion, aregion) ==
    Cardinality({i \in 1..Len(sregion) : sregion[i] = aregion[i]})

\* A test that lets one error more through.
TooManyErrorsLax(a, m, e) == (Len(a) - m) > e + 1

\* A test that rejects at the threshold itself.
TooManyErrorsStrict(a, m, e) == (Len(a) - m) >= e

\* The test of "too many errors -- no trimming".
TooManyErrors(a, m, e) == (Len(a) - m) > e

\* The lists localms may hand to trim_adaptor; it is called only when the
\* adaptor is no exact substring of the read.
AlignsFor(s, a) == IF Find(s, a) >= 0 THEN {<<>>} ELSE LocalMS(s, a)

\* trim_adaptor, given the list al that localms returned (unused on the exact
\* path): its locals and its return value.
TrimAdaptorRun(s, a, e, side, al) ==
    LET exact_pos == Find(s, a)
        regions == IF exact_pos >= 0
                   THEN <<Slice(s, exact_pos, exact_pos + Len(a)), a>>
                   ELSE IF Len(al) = 0 THEN << <<>>, <<>> >>
                   ELSE <<Slice(al[1][1], al[1][4], al[1][5]),
                          Slice(al[1][2], al[1][4], al[1][5])>>
        m == Matches(regions[1], regions[2])
        reject == TooManyErrors(a, m, e)
    IN  [ called |-> exact_pos < 0,
          seq_region |-> regions[1],
          adapt_region |-> regions[2],
          matches |-> m,
          branch |-> IF reject THEN "rejected" ELSE "removed",
          pos |-> IF reject THEN 0
                  ELSE RemovePos(s, StripGaps(regions[1]), side),
          ret |-> IF reject THEN s
                  ELSE RemoveAdaptor(s, StripGaps(regions[1]), side) ]

\* An offset always searched from the left.
QualPosLeft(s, t, side) == Find(s, t)

\* trim_adaptor_w_qual: the offset of the trimmed read in the read.
QualPos(s, t, side) == IF side THEN Find(s, t) ELSE RFind(s, t)

\* No check of the lengths.
QualPreconditionNone(s, q) == TRUE

\* The first assertion of trim_adaptor_w_qual.
QualPrecondition(s, q) == Len(s) = Len(q)

\* A filter that also writes untouched records.
MainKeepUntouched(trim, rec) == Len(trim) > 0 /\ Len(trim) <= Len(rec.seq)

\* main: the records that are written.
MainKeep(trim, rec) == Len(trim) > 0 /\ Len(trim) < Len(rec.seq)

\* ------------------------------------------------------------ inputs
Reads == StrsUpTo(MaxSeqLen)
Adaptors == StrsUpTo(MaxAdaptorLen)
ErrorCounts == 0..MaxErrors

\* Quality strings: one score per position, the score naming its position.
Scores(n) == [i \in 1..n |-> i]
Quals(s) == {Scores(n) : n \in {Len(s), Len(s) + 1} \cup (IF Len(s) > 0 THEN {Len(s) - 1} ELSE {})}

\* ------------------------------------------------------------ state
VARIABLES
    pc,             \* "idle", or the call that has ended
    seq, qual, adaptor, num_errors, right_side,   \* the arguments
    aligner_called, \* whether localms was called
    aligns,         \* what it returned
    seq_region, adapt_region, matches,            \* locals of trim_adaptor
    branch,         \* "none", "rejected" or "removed"
    cut_pos,        \* what find or rfind returned in _remove_adaptor (0 before)
    tseq, tqual,    \* the values returned
    raised,         \* "none" or the exception that ended the call
    in_recs,        \* main: the records read so far
    trims,          \* main: the value of trim for each of them
    out_recs        \* main: the records written so far

vars == <<pc, seq, qual, adaptor, num_errors, right_side, aligner_called, aligns,
          seq_region, adapt_region, matches, branch, cut_pos, tseq, tqual, raised,
          in_recs, trims, out_recs>>

mainVars == <<in_recs, trims, out_recs>>

NoCall ==
    /\ num_errors = 0 /\ right_side = TRUE /\ qual = <<>>
    /\ aligner_called = FALSE /\ aligns = <<>>
    /\ seq_region = <<>> /\ adapt_region = <<>> /\ matches = 0
    /\ branch = "none" /\ cut_pos = 0
    /\ tseq = <<>> /\ tqual = <<>> /\ raised = "none"

Init ==
    /\ pc = "idle"
    /\ seq \in Reads
    /\ adaptor \in Adaptors
    /\ NoCall
    /\ in_recs = <<>> /\ trims = <<>> /\ out_recs = <<>>

\* The locals and the result of one run of trim_adaptor.
SetTrim(r, al) ==
    /\ aligner_called' = r.called
    /\ aligns' = (IF r.called THEN al ELSE <<>>)
    /\ seq_region' = r.seq_region
    /\ adapt_region' = r.adapt_region
    /\ matches' = r.matches
    /\ cut_pos' = r.pos
    /\ branch' = r.branch
    /\ tseq' = r.ret

\* trim_adaptor(seq, adaptor, num_errors, right_side)
TrimAdaptor ==
    /\ pc = "idle"
    /\ \E e \in ErrorCounts, side \in BOOLEAN, al \in AlignsFor(seq, adaptor) :
          /\ num_errors' = e
          /\ right_side' = side
          /\ SetTrim(TrimAdaptorRun(seq, adaptor, e, side, al), al)
    /\ pc' = "trim_adaptor"
    /\ UNCHANGED <<seq, adaptor, qual, tqual, raised, mainVars>>

\* trim_adaptor_w_qual(seq, qual, adaptor, num_errors, right_side)
TrimAdaptorWQual ==
    /\ pc = "idle"
    /\ \E q \in Quals(seq), e \in ErrorCounts, side \in BOOLEAN :
          /\ qual' = q
          /\ num_errors' = e
          /\ right_side' = side
          /\ IF ~QualPrecondition(seq, q)
             THEN /\ raised' = "AssertionError"
                  /\ UNCHANGED <<aligner_called, aligns, seq_region, adapt_region,
                                 matches, branch, cut_pos, tseq, tqual>>
             ELSE \E al \in AlignsFor(seq, adaptor) :
                    LET r == TrimAdaptorRun(seq, adaptor, e, side, al)
                        pos == QualPos(seq, r.ret, side)
                        tq == Slice(q, pos, pos + Len(r.ret))
                    IN  /\ SetTrim(r, al)
                        /\ tqual' = tq
                        /\ raised' = (IF Len(r.ret) = Len(tq) THEN "none"
                                      ELSE "AssertionError")
    /\ pc' = "trim_adaptor_w_qual"
    /\ UNCHANGED <<seq, adaptor, mainVars>>

Next == TrimAdaptor \/ TrimAdaptorWQual

Spec == Init /\ [][Next]_vars

\* trim_adaptor alone, with adaptors as long as the reads, so that the
\* alignment may put gap markers on the read side as well.
InitTrim ==
    /\ pc = "idle"
    /\ seq \in Reads
    /\ adaptor \in StrsUpTo(MaxSeqLen)
    /\ NoCall
    /\ in_recs = <<>> /\ trims = <<>> /\ out_recs = <<>>

SpecTrim == InitTrim /\ [][TrimAdaptor]_vars

\* ------------------------------------------------------------ batch driver
\* main(in_file, out_file, adaptor_seq, num_errors): the arguments are read and
\* both files are open; nothing has been parsed or written.
InitMain ==
    /\ pc = "main"
    /\ seq = <<>>
    /\ adaptor \in StrsUpTo(MaxRecLen)
    /\ num_errors \in ErrorCounts
    /\ right_side = TRUE /\ qual = <<>>
    /\ aligner_called = FALSE /\ aligns = <<>>
    /\ seq_region = <<>> /\ adapt_region = <<>> /\ matches = 0
    /\ branch = "none" /\ cut_pos = 0
    /\ tseq = <<>> /\ tqual = <<>> /\ raised = "none"
    /\ in_recs = <<>> /\ trims = <<>> /\ out_recs = <<>>

\* The record as written: annotations cleared, then the sequence replaced.
Written(rec, trim) == [rec EXCEPT !.letter_annotations = <<>>, !.seq = trim]

\* One turn of the loop over SeqIO.parse: the next record is read, trimmed on
\* the right side and written if it is kept.
MainLoop ==
    /\ pc = "main"
    /\ Len(in_recs) < MaxRecs
    /\ \E s \in StrsUpTo(MaxRecLen) :
         \E al \in AlignsFor(s, adaptor) :
            LET rec == [id |-> Len(in_recs) + 1, seq |-> s,
                        letter_annotations |-> Scores(Len(s))]
                r == TrimAdaptorRun(rec.seq, adaptor, num_errors, TRUE, al)
            IN  /\ seq' = s
                /\ SetTrim(r, al)
                /\ in_recs' = Append(in_recs, rec)
                /\ trims' = Append(trims, r.ret)
                /\ out_recs' = (IF MainKeep(r.ret, rec)
                                THEN Append(out_recs, Written(rec, r.ret))
                                ELSE out_recs)
    /\ UNCHANGED <<pc, qual, adaptor, num_errors, right_side, tqual, raised>>

\* The parser is exhausted: the loop and both with-blocks end.
MainExit ==
    /\ pc = "main"
    /\ pc' = "main_done"
    /\ UNCHANGED <<seq, qual, adaptor, num_errors, right_side, aligner_called,
                   aligns, seq_region, adapt_region, matches, branch, cut_pos, tseq,
                   tqual,
                   raised, mainVars>>

NextMain == MainLoop \/ MainExit

SpecMain == InitMain /\ [][NextMain]_vars
\* ------------------------------------------------------------ properties
\* trim_adaptor has run to its return.
Trimmed == branch # "none"

\* The matched region of the read without its gap markers.
Literal == StripGaps(seq_region)

\* len(adaptor) minus the columns of the matched region that agree.
Errors ==
    Len(adaptor) - Cardinality({i \in 1..Len(seq_region) : seq_region[i] = adapt_region[i]})

\* The columns of the matched region that disagree.
Differences ==
    Cardinality({i \in 1..Len(seq_region) : seq_region[i] # adapt_region[i]})

\* What is kept when the cut is made at the occurrence at offset p.
KeptAt(p) ==
    IF right_side THEN SubSeq(seq, 1, p)
    ELSE SubSeq(seq, p + Len(Literal) + 1, Len(seq))

\* C1: when the adaptor is an exact substring of the read, a right-side trim
\* returns the prefix of the read before the leftmost occurrence of the
\* adaptor, whatever num_errors is.
C1_ExactRightPrefix ==
    (Trimmed /\ right_side /\ Occurrences(seq, adaptor) # {}) =>
        \E p \in Occurrences(seq, adaptor) :
            /\ \A q \in Occurrences(seq, adaptor) : p <= q
            /\ tseq = SubSeq(seq, 1, p)

C1_Witness ==
    /\ pc = "trim_adaptor" /\ right_side /\ num_errors = MaxErrors
    /\ Cardinality(Occurrences(seq, adaptor)) >= 2
    /\ tseq # <<>> /\ Len(tseq) < Len(seq) - Len(adaptor)

\* C2: when the error count exceeds num_errors, trim_adaptor returns the read
\* itself, at full length, on either side.
C2_RejectedUnchanged ==
    (Trimmed /\ Errors > num_errors) =>
        (tseq = seq /\ Len(tseq) = Len(seq))

C2_Witness ==
    /\ pc = "trim_adaptor" /\ ~right_side
    /\ aligner_called /\ aligns # <<>>
    /\ Errors = num_errors + 1 /\ num_errors > 0
    /\ tseq = seq

\* C3: when the adaptor is no exact substring and the aligner returns no
\* alignment, trim_adaptor returns the read unchanged, for every num_errors
\* and either side.
C3_NoAlignmentUnchanged ==
    (Trimmed /\ aligner_called /\ aligns = <<>>) => tseq = seq

\* C4: the threshold is inclusive: with the error count equal to num_errors
\* the adaptor is removed and the cut read is returned, shorter than any
\* non-empty read; the read is left alone only above the threshold.
C4_InclusiveThreshold ==
    Trimmed =>
        /\ Errors = num_errors =>
              /\ branch = "removed"
              /\ \E p \in Occurrences(seq, Literal) : tseq = KeptAt(p)
              /\ seq # <<>> => Len(tseq) < Len(seq)
        /\ branch = "rejected" => Errors > num_errors

C4_Witness ==
    /\ pc = "trim_adaptor" /\ right_side
    /\ aligner_called /\ aligns # <<>>
    /\ Errors = num_errors /\ num_errors > 0
    /\ branch = "removed" /\ tseq # <<>> /\ tseq # seq

\* C5: an accepted left-side trim returns what lies after the end of the
\* rightmost occurrence of the gap-stripped matched region of the read.
C5_LeftSuffixAfterLast ==
    (branch = "removed" /\ ~right_side) =>
        \E p \in Occurrences(seq, Literal) :
            /\ \A q \in Occurrences(seq, Literal) : q <= p
            /\ tseq = SubSeq(seq, p + Len(Literal) + 1, Len(seq))

C5_Witness ==
    /\ pc = "trim_adaptor" /\ ~right_side /\ branch = "removed"
    /\ ~aligner_called
    /\ Cardinality(Occurrences(seq, Literal)) >= 2
    /\ tseq # <<>>

\* C6: with len(seq) = len(qual), trim_adaptor_w_qual returns the trimmed read
\* of trim_adaptor and the quality symbols at the offsets that read occupies:
\* the first len(tseq) for a right-side trim, the last len(tseq) for a
\* left-side trim; the lengths agree and the final assertion holds.
C6_QualFollowsSeq ==
    (pc = "trim_adaptor_w_qual" /\ Len(seq) = Len(qual)) =>
        /\ raised = "none"
        /\ Trimmed
        /\ tseq = TrimAdaptorRun(seq, adaptor, num_errors, right_side, aligns).ret
        /\ Len(tseq) = Len(tqual)
        /\ right_side =>
              /\ tseq = SubSeq(seq, 1, Len(tseq))
              /\ tqual = SubSeq(qual, 1, Len(tseq))
        /\ ~right_side =>
              /\ tseq = SubSeq(seq, Len(seq) - Len(tseq) + 1, Len(seq))
              /\ tqual = SubSeq(qual, Len(qual) - Len(tseq) + 1, Len(qual))

C6_Witness ==
    /\ pc = "trim_adaptor_w_qual" /\ Len(seq) = Len(qual) /\ raised = "none"
    /\ ~right_side /\ branch = "removed"
    /\ tseq # <<>>
    /\ Cardinality(Occurrences(seq, tseq)) >= 2

\* C7: with len(seq) # len(qual), trim_adaptor_w_qual ends in an assertion
\* error before anything is searched, aligned or trimmed, and returns nothing.
C7_LengthMismatchFails ==
    (pc = "trim_adaptor_w_qual" /\ Len(seq) # Len(qual)) =>
        /\ raised = "AssertionError"
        /\ ~aligner_called /\ aligns = <<>>
        /\ branch = "none"
        /\ seq_region = <<>> /\ adapt_region = <<>>
        /\ tseq = <<>> /\ tqual = <<>>

C7_Witness ==
    /\ pc = "trim_adaptor_w_qual" /\ raised = "AssertionError"
    /\ Len(qual) = Len(seq) + 1
    /\ Occurrences(seq, adaptor) # {} /\ Len(seq) > Len(adaptor)

\* C8: main writes a record exactly when 0 < len(trim) < len(record); the
\* written records keep the input order, and each carries the right-side
\* trimmed sequence with the quality annotations cleared.
C8_MainWritesTrimmedOnly ==
    (pc \in {"main", "main_done"}) =>
        /\ Len(trims) = Len(in_recs)
        /\ \A k \in 1..Len(in_recs) :
              /\ trims[k] = SubSeq(in_recs[k].seq, 1, Len(trims[k]))
              /\ (0 < Len(trims[k]) /\ Len(trims[k]) < Len(in_recs[k].seq))
                    <=> (\E n \in 1..Len(out_recs) : out_recs[n].id = in_recs[k].id)
        /\ \A n \in 1..Len(out_recs) :
              \E k \in 1..Len(in_recs) :
                 /\ out_recs[n].id = in_recs[k].id
                 /\ out_recs[n].seq = trims[k]
                 /\ out_recs[n].letter_annotations = <<>>
        /\ \A n1, n2 \in 1..Len(out_recs) : n1 < n2 => out_recs[n1].id < out_recs[n2].id

C8_Witness ==
    /\ pc = "main_done"
    /\ Len(in_recs) = MaxRecs /\ Len(out_recs) = 1
    /\ out_recs[1].id = 2
    /\ trims[1] = in_recs[1].seq /\ in_recs[1].seq # <<>>

\* C9 (as stated): with a matched literal that occurs in the read, the cut
\* point keeps the most: no other occurrence of the literal, used as the cut
\* point, would give a longer result.
C9_CutKeepsMost ==
    (branch = "removed" /\ Literal # <<>>) =>
        \A q \in Occurrences(seq, Literal) : Len(KeptAt(q)) <= Len(tseq)

\* C9 (amended): the cut point keeps the least: the result is the cut at an
\* occurrence of the matched literal, and no other occurrence, used as the cut
\* point, would give a shorter result.
C9_CutKeepsLeast ==
    branch = "removed" =>
        /\ \E p \in Occurrences(seq, Literal) : tseq = KeptAt(p)
        /\ \A q \in Occurrences(seq, Literal) : Len(tseq) <= Len(KeptAt(q))

C9_Witness ==
    /\ pc = "trim_adaptor" /\ branch = "removed" /\ right_side
    /\ Literal # <<>>
    /\ \E q \in Occurrences(seq, Literal) : Len(tseq) < Len(KeptAt(q))

\* C10: on the alignment path, with a matched region that covers the whole
\* adaptor, the error count held against num_errors is the number of columns
\* of the region at which read and adaptor differ, gap markers included.
\* Stated for the reads that have a single best alignment, where the answer
\* of the aligner is not a matter of its tie-break.
C10_ErrorsAreDifferences ==
    (Trimmed /\ aligner_called /\ aligns # <<>>
        /\ StripGaps(adapt_region) = adaptor
        /\ Cardinality(LocalMS(seq, adaptor)) = 1) =>
        Len(adaptor) - matches = Differences

\* C11: whatever trim_adaptor returns is a piece of the read anchored at the
\* kept end: a prefix for a right-side trim, a suffix for a left-side trim,
\* no longer than the read and free of gap markers; and when the adaptor is
\* removed, the search for the gap-stripped matched region finds it (find and
\* rfind do not return -1).
C11_ResultAnchoredPiece ==
    Trimmed =>
        /\ Len(tseq) <= Len(seq)
        /\ right_side => tseq = SubSeq(seq, 1, Len(tseq))
        /\ ~right_side => tseq = SubSeq(seq, Len(seq) - Len(tseq) + 1, Len(seq))
        /\ \A i \in 1..Len(tseq) : tseq[i] # gap_char
        /\ branch = "removed" =>
              /\ cut_pos >= 0
              /\ cut_pos + Cardinality({k \in 1..Len(seq_region) : seq_region[k] # gap_char})
                    <= Len(seq)

C11_Witness ==
    /\ pc = "trim_adaptor" /\ branch = "removed" /\ right_side
    /\ aligner_called /\ aligns # <<>>
    /\ \E i \in 1..Len(seq_region) : seq_region[i] = gap_char
    /\ cut_pos > 0
    /\ tseq # <<>> /\ Len(tseq) < Len(seq)
====
